---- MODULE Spec2Model ----
(***************************************************************************)
(* Model of seed_inventory (seed/seed.py): the expansion of one inventory  *)
(* item into variant rows (colour x size, sizes only, colours only, base   *)
(* SKU only), the distribution of quantity_available over the variants,    *)
(* and the INSERT statements issued against inventory_items; of the        *)
(* variant SKUs seed_products stores in the product documents; and of main,*)
(* which runs the selected seeding steps and sets the exit status.         *)
(*                                                                         *)
(* Strings are sequences of one-character strings, so that upper() and     *)
(* replace(' ', '-') are computed and not assumed.                         *)
(***************************************************************************)
EXTENDS Integers, Sequences, FiniteSets, TLC

VARIABLES pc, inventory_data, products_data, product_map, inventory_items,
          committed_items, item_idx, ci, si, variant_index, emitted,
          seeded, variant_count, result,
          reservations, stock_movements, log, history,
          run, first_history, first_items,
          main_pc, args, started, results, exit_code, product_docs

\* The second invocation of seed_inventory and what the first one left
run_vars == <<run, first_history, first_items>>

\* main, and the products collection seed_products writes
main_vars == <<main_pc, args, started, results, exit_code, product_docs>>

vars == <<pc, inventory_data, products_data, product_map, inventory_items,
          committed_items, item_idx, ci, si, variant_index, emitted,
          seeded, variant_count, result,
          reservations, stock_movements, log, history, run_vars, main_vars>>

----------------------------------------------------------------------------
(* Bounds of the model *)

MaxColors == 2
MaxSizes == 2
MaxQty == 6

----------------------------------------------------------------------------
(* Strings *)

\* str.upper() on the characters the model draws from
Upper(c) ==
  CASE c = "a" -> "A"
    [] c = "b" -> "B"
    [] c = "c" -> "C"
    [] c = "e" -> "E"
    [] c = "h" -> "H"
    [] c = "i" -> "I"
    [] c = "k" -> "K"
    [] c = "l" -> "L"
    [] c = "t" -> "T"
    [] OTHER -> c

StrUpper(s) == [i \in 1..Len(s) |-> Upper(s[i])]

\* str.replace(' ', '-')
ReplaceSpaces(s) == [i \in 1..Len(s) |-> IF s[i] = " " THEN "-" ELSE s[i]]

IsPrefix(p, s) == Len(p) <= Len(s) /\ SubSeq(s, 1, Len(p)) = p

\* SQL LIKE: % matches any run of characters, _ any one character
RECURSIVE Like(_, _)
Like(pattern, s) ==
  IF pattern = <<>> THEN s = <<>>
  ELSE IF Head(pattern) = "%"
    THEN Like(Tail(pattern), s) \/ (s # <<>> /\ Like(pattern, Tail(s)))
    ELSE /\ s # <<>>
         /\ (Head(pattern) = "_" \/ Head(pattern) = Head(s))
         /\ Like(Tail(pattern), Tail(s))

----------------------------------------------------------------------------
(* Input data: inventory.json and products.json *)

Tokens == { <<"a">>, <<"A">>, <<"a", " ", "b">> }

BaseSkus == { <<"X">>, <<"Y">> }

SeqsUpTo(S, n) == UNION { [1..k -> S] : k \in 0..n }

\* The totals of an inventory record other than quantity_available
Totals ==
  { [ quantity_reserved |-> 2, reorder_level |-> 3, max_stock |-> 25,
      cost_per_unit |-> 1999 ],
    [ quantity_reserved |-> 0, reorder_level |-> 9, max_stock |-> 100,
      cost_per_unit |-> 0 ] }

Items ==
  { [ sku |-> <<"X">>,
      quantity_available |-> q,
      quantity_reserved |-> t.quantity_reserved,
      reorder_level |-> t.reorder_level,
      max_stock |-> t.max_stock,
      cost_per_unit |-> t.cost_per_unit ] : q \in -1..MaxQty, t \in Totals }

Products ==
  [ sku : BaseSkus,
    colors : SeqsUpTo(Tokens, MaxColors),
    sizes : SeqsUpTo(Tokens, MaxSizes) ]

\* Rows already in inventory_items before the run: a variant row of an
\* earlier seeding of X and a row of an unrelated SKU.
InitialItems ==
  { [ sku |-> <<"X", "-", "A">>, quantity_available |-> 4, quantity_reserved |-> 1,
      reorder_level |-> 2, max_stock |-> 50, cost_per_unit |-> 1999 ],
    [ sku |-> <<"Z">>, quantity_available |-> 5, quantity_reserved |-> 0,
      reorder_level |-> 1, max_stock |-> 10, cost_per_unit |-> 0 ] }

\* A second record of inventory.json, so that the loop over the items runs twice
SecondItem ==
  [ sku |-> <<"Y">>, quantity_available |-> 5, quantity_reserved |-> 1,
    reorder_level |-> 4, max_stock |-> 30, cost_per_unit |-> 500 ]

\* Rows of reservations and stock_movements before the run; their sku is a
\* foreign key into inventory_items.
InitialReservations ==
  { [ id |-> 1, sku |-> <<"X", "-", "A">> ], [ id |-> 2, sku |-> <<"Z">> ] }

InitialMovements ==
  { [ id |-> 1, sku |-> <<"X", "-", "A">> ], [ id |-> 2, sku |-> <<"Z">> ] }

None == [ none |-> TRUE ]

----------------------------------------------------------------------------
(* Locals of one iteration of "for item in inventory_data" *)

item == inventory_data[item_idx]

base_sku == item.sku

\* product_map.get(base_sku)
product == IF base_sku \in DOMAIN product_map THEN product_map[base_sku] ELSE None

has_colors == product # None /\ Len(product.colors) > 0

has_sizes == product # None /\ Len(product.sizes) > 0

\* Faulty variant: the colours iterated as a set, whose order differs from
\* one process to the next
colors_unordered ==
  IF run = 2
    THEN [ i \in 1..Len(product.colors) |-> product.colors[Len(product.colors) + 1 - i] ]
    ELSE product.colors

colors == product.colors

sizes == product.sizes

total_variants ==
  IF has_colors /\ has_sizes THEN Len(colors) * Len(sizes)
  ELSE IF has_sizes THEN Len(sizes)
  ELSE Len(colors)

Max(a, b) == IF a >= b THEN a ELSE b

\* Faulty variant: the share is not raised to 1
quantity_per_variant_nofloor == item.quantity_available \div total_variants

\* Python // and % with a positive divisor are \div and %
quantity_per_variant == Max(1, item.quantity_available \div total_variants)

\* Faulty variant: what the shares leave over instead of the modulus
extra_quantity_leftover ==
  item.quantity_available - Max(1, item.quantity_available \div total_variants) * total_variants

extra_quantity == item.quantity_available % total_variants

\* Faulty variant: one variant too many receives the extra unit
quantity_offbyone(index) ==
  Max(1, item.quantity_available \div total_variants)
    + (IF index <= item.quantity_available % total_variants THEN 1 ELSE 0)

\* Faulty variant: the extra units go to the last variants
quantity_extra_last(index) ==
  Max(1, item.quantity_available \div total_variants)
    + (IF index >= total_variants - (item.quantity_available % total_variants)
         THEN 1 ELSE 0)

quantity(index) == quantity_per_variant + (IF index < extra_quantity THEN 1 ELSE 0)

\* color.upper().replace(' ', '-')
color_code(color) == ReplaceSpaces(StrUpper(color))

\* Faulty variant: the size normalised like the colour
size_code_hyphen(size) == ReplaceSpaces(StrUpper(size))

\* size.upper() in the colour-and-size case
size_code(size) == StrUpper(size)

\* Faulty variant: the size uppercased only
size_only_code_upper(size) == StrUpper(size)

\* size.upper().replace(' ', '-') in the sizes-only case
size_only_code(size) == ReplaceSpaces(StrUpper(size))

variant_sku_both(color, size) ==
  base_sku \o <<"-">> \o color_code(color) \o <<"-">> \o size_code(size)

variant_sku_size(size) == base_sku \o <<"-">> \o size_only_code(size)

variant_sku_color(color) == base_sku \o <<"-">> \o color_code(color)

variant_reorder_level == Max(1, item.reorder_level \div total_variants)

\* Faulty variant: the floor of reorder_level used for max_stock
variant_max_stock_floor1 == Max(1, item.max_stock \div total_variants)

variant_max_stock == Max(10, item.max_stock \div total_variants)

\* Faulty variant: the item's reservations copied to the variant
VariantRow_reserved(sku, index) ==
  [ sku |-> sku,
    quantity_available |-> quantity(index),
    quantity_reserved |-> item.quantity_reserved,
    reorder_level |-> variant_reorder_level,
    max_stock |-> variant_max_stock,
    cost_per_unit |-> item.cost_per_unit ]

\* The parameter tuple of the INSERT of one variant
VariantRow(sku, index) ==
  [ sku |-> sku,
    quantity_available |-> quantity(index),
    quantity_reserved |-> 0,
    reorder_level |-> variant_reorder_level,
    max_stock |-> variant_max_stock,
    cost_per_unit |-> item.cost_per_unit ]

\* Faulty variant: the base row built like a variant row
BaseRow_variant ==
  [ sku |-> base_sku,
    quantity_available |-> item.quantity_available,
    quantity_reserved |-> 0,
    reorder_level |-> item.reorder_level,
    max_stock |-> item.max_stock,
    cost_per_unit |-> item.cost_per_unit ]

\* The parameter tuple of the INSERT of the base SKU
BaseRow ==
  [ sku |-> base_sku,
    quantity_available |-> item.quantity_available,
    quantity_reserved |-> item.quantity_reserved,
    reorder_level |-> item.reorder_level,
    max_stock |-> item.max_stock,
    cost_per_unit |-> item.cost_per_unit ]

----------------------------------------------------------------------------
(* The database *)

\* UNIQUE INDEX ix_inventory_items_sku
UniqueViolation(row) == \E r \in inventory_items : r.sku = row.sku

\* WHERE sku = %s OR sku LIKE %s with (base_sku, base_sku + "-%")
\* Faulty variant: only the base SKU itself is cleared
MatchesDemoSku_exact(sku, base) == sku = base

MatchesDemoSku(sku, base) == sku = base \/ Like(base \o <<"-", "%">>, sku)

\* demo_skus = [item['sku'] for item in inventory_data]
demo_skus == [ i \in DOMAIN inventory_data |-> inventory_data[i].sku ]

Statement(op, table, sku) == [ op |-> op, table |-> table, sku |-> sku ]

CommitStatement == [ op |-> "commit" ]

\* The three DELETE statements of each base SKU, in the order of the loop
RECURSIVE ClearStatements(_)
ClearStatements(skus) ==
  IF skus = <<>> THEN <<>>
  ELSE << Statement("delete", "stock_movements", Head(skus)),
          Statement("delete", "reservations", Head(skus)),
          Statement("delete", "inventory_items", Head(skus)) >>
       \o ClearStatements(Tail(skus))

\* The rows a table keeps after the DELETE statements of every base SKU
Cleared(rows) ==
  { r \in rows : ~ \E i \in DOMAIN demo_skus : MatchesDemoSku(r.sku, demo_skus[i]) }

\* FOREIGN KEY (sku) REFERENCES inventory_items(sku) ON DELETE CASCADE
Cascade(children, parents) == { c \in children : \E r \in parents : r.sku = c.sku }

\* cursor.execute(INSERT ...) of one row; more = the loop of the item goes on.
\* A duplicate SKU raises mysql.connector.Error: the function returns False
\* and the open transaction is never committed.
Execute(row, more) ==
  /\ emitted' = Append(emitted, row)
  /\ log' = Append(log, Statement("insert", "inventory_items", row.sku))
  /\ UNCHANGED <<reservations, stock_movements>>
  /\ IF UniqueViolation(row)
       THEN /\ pc' = "failed"
            /\ result' = "False"
            /\ inventory_items' = committed_items
            /\ history' = Append(history, emitted')
            /\ UNCHANGED <<seeded, variant_count>>
       ELSE /\ inventory_items' = inventory_items \cup {row}
            /\ history' = IF more THEN history ELSE Append(history, emitted')
            /\ pc' = IF more THEN "item" ELSE "loop"
            /\ seeded' = IF more THEN seeded ELSE seeded + 1
            /\ variant_count' = IF has_colors \/ has_sizes
                                  THEN variant_count + 1 ELSE variant_count
            /\ UNCHANGED result

----------------------------------------------------------------------------
(* Operations *)

\* dict.get(key, default) on a record of products.json
GetOr(p, key, default) == IF key \in DOMAIN p THEN p[key] ELSE default

RECURSIVE BuildMap(_, _)
BuildMap(ps, m) ==
  IF ps = <<>> THEN m
  ELSE LET p == Head(ps)
           pcolors == GetOr(p, "colors", <<>>)
           psizes == GetOr(p, "sizes", <<>>)
           keep == p.sku # <<>> /\ (pcolors # <<>> \/ psizes # <<>>)
           m2 == IF keep
                   THEN [ k \in DOMAIN m \cup {p.sku} |->
                            IF k = p.sku THEN [colors |-> pcolors, sizes |-> psizes]
                            ELSE m[k] ]
                   ELSE m
       IN BuildMap(Tail(ps), m2)

EmptyMap == [ k \in {} |-> None ]

\* seed_inventory called directly, without main
NoArgs == [ users |-> FALSE, products |-> FALSE, inventory |-> FALSE ]

\* The process has not exited
NotExited == "running"

Init ==
  /\ pc = "map"
  /\ inventory_data \in { <<i>> : i \in Items } \cup { <<i, SecondItem>> : i \in Items }
  /\ products_data \in SeqsUpTo(Products, 1)
  /\ product_map = EmptyMap
  /\ inventory_items = InitialItems
  /\ committed_items = InitialItems
  /\ item_idx = 0
  /\ ci = 1
  /\ si = 1
  /\ variant_index = 0
  /\ emitted = <<>>
  /\ seeded = 0
  /\ variant_count = 0
  /\ result = "none"
  /\ reservations = InitialReservations
  /\ stock_movements = InitialMovements
  /\ log = <<>>
  /\ history = <<>>
  /\ run = 1
  /\ first_history = <<>>
  /\ first_items = {}
  /\ main_pc = "off"
  /\ args = NoArgs
  /\ started = <<>>
  /\ results = <<>>
  /\ exit_code = NotExited
  /\ product_docs = {}

BuildProductMap ==
  /\ pc = "map"
  /\ product_map' = BuildMap(products_data, EmptyMap)
  /\ pc' = "clear"
  /\ UNCHANGED <<inventory_data, products_data, inventory_items, committed_items,
                 item_idx, ci, si, variant_index, emitted, seeded, variant_count,
                 result>>
  /\ UNCHANGED <<reservations, stock_movements, log, history, run_vars, main_vars>>

ClearDemoInventory ==
  /\ pc = "clear"
  /\ inventory_items' = Cleared(inventory_items)
  /\ committed_items' = inventory_items'
  /\ stock_movements' = Cascade(Cleared(stock_movements), inventory_items')
  /\ reservations' = Cascade(Cleared(reservations), inventory_items')
  /\ log' = log \o ClearStatements(demo_skus) \o << CommitStatement >>
  /\ pc' = "loop"
  /\ UNCHANGED <<inventory_data, products_data, product_map, item_idx, ci, si,
                 variant_index, emitted, seeded, variant_count, result>>
  /\ UNCHANGED <<history, run_vars, main_vars>>

NextItem ==
  /\ pc = "loop"
  /\ item_idx < Len(inventory_data)
  /\ item_idx' = item_idx + 1
  /\ ci' = 1
  /\ si' = 1
  /\ variant_index' = 0
  /\ emitted' = <<>>
  /\ pc' = "item"
  /\ UNCHANGED <<inventory_data, products_data, product_map, inventory_items,
                 committed_items, seeded, variant_count, result>>
  /\ UNCHANGED <<reservations, stock_movements, log, history, run_vars, main_vars>>

\* Case 1: one pass of "for color in colors: for size in sizes"
InsertColorSizeVariant ==
  /\ pc = "item"
  /\ has_colors /\ has_sizes
  /\ LET last_size == si = Len(sizes)
         last == last_size /\ ci = Len(colors)
     IN /\ Execute(VariantRow(variant_sku_both(colors[ci], sizes[si]), variant_index),
                   ~ last)
        /\ si' = IF last_size THEN 1 ELSE si + 1
        /\ ci' = IF last_size THEN ci + 1 ELSE ci
  /\ variant_index' = variant_index + 1
  /\ UNCHANGED <<inventory_data, products_data, product_map, committed_items, item_idx>>
  /\ UNCHANGED <<run_vars, main_vars>>

\* Case 2: one pass of "for idx, size in enumerate(sizes)"
InsertSizeVariant ==
  /\ pc = "item"
  /\ has_sizes /\ ~ has_colors
  /\ Execute(VariantRow(variant_sku_size(sizes[si]), si - 1), si < Len(sizes))
  /\ si' = si + 1
  /\ UNCHANGED <<inventory_data, products_data, product_map, committed_items, item_idx,
                 ci, variant_index>>
  /\ UNCHANGED <<run_vars, main_vars>>

\* Faulty variant: the loop over the colours stops one colour early
InsertColorVariant_short ==
  /\ pc = "item"
  /\ has_colors /\ ~ has_sizes
  /\ Execute(VariantRow(variant_sku_color(colors[ci]), ci - 1), ci + 1 < Len(colors))
  /\ ci' = ci + 1
  /\ UNCHANGED <<inventory_data, products_data, product_map, committed_items, item_idx,
                 si, variant_index>>
  /\ UNCHANGED <<run_vars, main_vars>>

\* Case 3: one pass of "for idx, color in enumerate(colors)"
InsertColorVariant ==
  /\ pc = "item"
  /\ has_colors /\ ~ has_sizes
  /\ Execute(VariantRow(variant_sku_color(colors[ci]), ci - 1), ci < Len(colors))
  /\ ci' = ci + 1
  /\ UNCHANGED <<inventory_data, products_data, product_map, committed_items, item_idx,
                 si, variant_index>>
  /\ UNCHANGED <<run_vars, main_vars>>

\* Case 4: the base SKU only
InsertBaseItem ==
  /\ pc = "item"
  /\ ~ has_colors /\ ~ has_sizes
  /\ Execute(BaseRow, FALSE)
  /\ UNCHANGED <<inventory_data, products_data, product_map, committed_items, item_idx,
                 ci, si, variant_index>>
  /\ UNCHANGED <<run_vars, main_vars>>

Commit ==
  /\ pc = "loop"
  /\ item_idx = Len(inventory_data)
  /\ committed_items' = inventory_items
  /\ result' = "True"
  /\ pc' = "done"
  /\ log' = Append(log, CommitStatement)
  /\ UNCHANGED <<inventory_data, products_data, product_map, inventory_items, item_idx,
                 ci, si, variant_index, emitted, seeded, variant_count>>
  /\ UNCHANGED <<reservations, stock_movements, history, run_vars, main_vars>>

Next ==
  \/ BuildProductMap
  \/ ClearDemoInventory
  \/ NextItem
  \/ InsertColorSizeVariant
  \/ InsertSizeVariant
  \/ InsertColorVariant
  \/ InsertBaseItem
  \/ Commit

Spec == Init /\ [][Next]_vars

----------------------------------------------------------------------------
(* seed_inventory run twice in succession on the same data files, with base *)
(* SKUs that are empty or hold a LIKE wildcard among the inputs             *)

ReseedItems ==
  { [ sku |-> k,
      quantity_available |-> q,
      quantity_reserved |-> t.quantity_reserved,
      reorder_level |-> t.reorder_level,
      max_stock |-> t.max_stock,
      cost_per_unit |-> t.cost_per_unit ] :
      k \in { <<"X">>, <<>>, <<"_">> }, q \in {-1, 2, 5}, t \in Totals }

ReseedSecondItems == { i \in ReseedItems : i.quantity_available = 2 /\ i.reorder_level = 3 }

ReseedProducts ==
  { <<>>,
    << [ sku |-> <<"X">>, colors |-> << <<"a">>, <<"A">> >>, sizes |-> <<>> ] >>,
    << [ sku |-> <<"X">>, colors |-> << <<"a">> >>,
         sizes |-> << <<"a">>, <<"a", " ", "b">> >> ] >>,
    << [ sku |-> <<"X">>, colors |-> <<>>,
         sizes |-> << <<"a", " ", "b">>, <<"a">> >> ] >>,
    << [ sku |-> <<"X">>, colors |-> << <<"a">>, <<"a", " ", "b">> >>, sizes |-> <<>> ] >>,
    << [ sku |-> <<"_">>, colors |-> << <<"a">> >>, sizes |-> <<>> ] >> }

InitReseed ==
  /\ pc = "map"
  /\ inventory_data \in { <<i>> : i \in ReseedItems }
                         \cup { <<i, j>> : i \in ReseedItems, j \in ReseedSecondItems }
  /\ products_data \in ReseedProducts
  /\ product_map = EmptyMap
  /\ inventory_items = InitialItems
  /\ committed_items = InitialItems
  /\ item_idx = 0
  /\ ci = 1
  /\ si = 1
  /\ variant_index = 0
  /\ emitted = <<>>
  /\ seeded = 0
  /\ variant_count = 0
  /\ result = "none"
  /\ reservations = InitialReservations
  /\ stock_movements = InitialMovements
  /\ log = <<>>
  /\ history = <<>>
  /\ run = 1
  /\ first_history = <<>>
  /\ first_items = {}
  /\ main_pc = "off"
  /\ args = NoArgs
  /\ started = <<>>
  /\ results = <<>>
  /\ exit_code = NotExited
  /\ product_docs = {}

\* The script is started again once the first run has ended: a new process
\* and a new connection, which sees the committed rows only.
Rerun ==
  /\ main_pc = "off"
  /\ pc \in {"done", "failed"}
  /\ run = 1
  /\ run' = 2
  /\ first_history' = history
  /\ first_items' = committed_items
  /\ pc' = "map"
  /\ product_map' = EmptyMap
  /\ inventory_items' = committed_items
  /\ item_idx' = 0
  /\ ci' = 1
  /\ si' = 1
  /\ variant_index' = 0
  /\ emitted' = <<>>
  /\ seeded' = 0
  /\ variant_count' = 0
  /\ result' = "none"
  /\ log' = <<>>
  /\ history' = <<>>
  /\ UNCHANGED <<inventory_data, products_data, committed_items, reservations,
                 stock_movements, main_vars>>

NextReseed ==
  \/ BuildProductMap
  \/ ClearDemoInventory
  \/ NextItem
  \/ InsertColorSizeVariant
  \/ InsertSizeVariant
  \/ InsertColorVariant
  \/ InsertBaseItem
  \/ Commit
  \/ Rerun

SpecReseed == InitReseed /\ [][NextReseed]_vars

----------------------------------------------------------------------------
(* seed_products: the variant SKUs stored in the product documents *)

\* The characters re.sub(r'[^A-Z0-9]', '', ...) keeps
Alphanumeric ==
  { "A", "B", "C", "E", "H", "I", "K", "L", "M", "T", "W", "X", "Y", "Z" }

\* re.sub(r'[^A-Z0-9]', '', token.upper())
Clean(token) == SelectSeq(StrUpper(token), LAMBDA c : c \in Alphanumeric)

generate_variant_sku(base, color, size) ==
  base \o (IF color # <<>> THEN <<"-">> \o Clean(color) ELSE <<>>)
       \o (IF size # <<>> THEN <<"-">> \o Clean(size) ELSE <<>>)

\* for color in colors: for size in sizes
generate_variants(base, cs, zs) ==
  [ k \in 1..(Len(cs) * Len(zs)) |->
      LET color == cs[((k - 1) \div Len(zs)) + 1]
          size == zs[((k - 1) % Len(zs)) + 1]
      IN [ sku |-> generate_variant_sku(base, color, size),
           color |-> color, size |-> size ] ]

DefaultColors == << <<"B", "l", "a", "c", "k">>, <<"W", "h", "i", "t", "e">> >>

DefaultSizes == << <<"M">>, <<"L">> >>

\* The document seed_products inserts for one record of products.json
ProductDoc(p) ==
  LET cs == GetOr(p, "colors", DefaultColors)
      zs == GetOr(p, "sizes", DefaultSizes)
  IN [ sku |-> p.sku, colors |-> cs, sizes |-> zs,
       variants |-> generate_variants(p.sku, cs, zs) ]

----------------------------------------------------------------------------
(* main, without --clear *)

seed_all == ~ (args.users \/ args.products \/ args.inventory)

\* What a seeding step can do to main: return True, return False, or end the
\* process (load_json finds no data file and calls sys.exit(1), or an
\* exception the step does not catch)
Outcomes == { "True", "False", "exit" }

\* Faulty variant: the flag follows the last result only
all_success_last == results = <<>> \/ results[Len(results)][2] = "True"

all_success == \A k \in DOMAIN results : results[k][2] = "True"

MainItems ==
  { << [ sku |-> <<"X">>, quantity_available |-> 5, quantity_reserved |-> 2,
         reorder_level |-> 3, max_stock |-> 25, cost_per_unit |-> 1999 ] >>,
    << [ sku |-> <<"X">>, quantity_available |-> 5, quantity_reserved |-> 2,
         reorder_level |-> 3, max_stock |-> 25, cost_per_unit |-> 1999 ],
       SecondItem >> }

MainProducts ==
  { << [ sku |-> <<"X">>, colors |-> << <<"a">> >>, sizes |-> << <<"b">> >> ] >>,
    << [ sku |-> <<"X">>, colors |-> << <<"a", " ", "b">> >>, sizes |-> << <<"a">> >> ] >>,
    << [ sku |-> <<"X">>, colors |-> <<>>, sizes |-> << <<"a">>, <<"b">> >> ] >>,
    << [ sku |-> <<"X">>, colors |-> << <<"a">>, <<"b">> >>, sizes |-> <<>> ] >>,
    << [ sku |-> <<"X">>, sizes |-> << <<"a">> >> ] >>,
    << [ sku |-> <<"X">> ] >> }

InitMain ==
  /\ pc = "idle"
  /\ inventory_data \in MainItems
  /\ products_data \in MainProducts
  /\ product_map = EmptyMap
  /\ inventory_items = InitialItems
  /\ committed_items = InitialItems
  /\ item_idx = 0
  /\ ci = 1
  /\ si = 1
  /\ variant_index = 0
  /\ emitted = <<>>
  /\ seeded = 0
  /\ variant_count = 0
  /\ result = "none"
  /\ reservations = InitialReservations
  /\ stock_movements = InitialMovements
  /\ log = <<>>
  /\ history = <<>>
  /\ run = 1
  /\ first_history = <<>>
  /\ first_items = {}
  /\ main_pc = "users"
  /\ args \in [ users : BOOLEAN, products : BOOLEAN, inventory : BOOLEAN ]
  /\ started = <<>>
  /\ results = <<>>
  /\ exit_code = NotExited
  /\ product_docs = {}

seed_inventory_vars ==
  <<pc, inventory_data, products_data, product_map, inventory_items,
    committed_items, item_idx, ci, si, variant_index, emitted,
    seeded, variant_count, result, reservations, stock_movements, log, history>>

\* if seed_all or args.users: results.append(('Users', seed_users()))
MainUsers ==
  /\ main_pc = "users"
  /\ IF seed_all \/ args.users
       THEN \E outcome \in Outcomes :
              /\ started' = Append(started, "Users")
              /\ IF outcome = "exit"
                   THEN /\ main_pc' = "exited"
                        /\ exit_code' = "1"
                        /\ UNCHANGED results
                   ELSE /\ main_pc' = "products"
                        /\ results' = Append(results, <<"Users", outcome>>)
                        /\ UNCHANGED exit_code
       ELSE /\ main_pc' = "products"
            /\ UNCHANGED <<started, results, exit_code>>
  /\ UNCHANGED <<args, product_docs, seed_inventory_vars, run_vars>>

\* if seed_all or args.products: results.append(('Products', seed_products()))
MainProductsStep ==
  /\ main_pc = "products"
  /\ IF seed_all \/ args.products
       THEN \E outcome \in Outcomes :
              /\ started' = Append(started, "Products")
              /\ product_docs' =
                   IF outcome = "True"
                     THEN { d \in product_docs :
                              \A k \in DOMAIN products_data : d.sku # products_data[k].sku }
                          \cup { ProductDoc(products_data[k]) : k \in DOMAIN products_data }
                     ELSE product_docs
              /\ IF outcome = "exit"
                   THEN /\ main_pc' = "exited"
                        /\ exit_code' = "1"
                        /\ UNCHANGED results
                   ELSE /\ main_pc' = "inventory"
                        /\ results' = Append(results, <<"Products", outcome>>)
                        /\ UNCHANGED exit_code
       ELSE /\ main_pc' = "inventory"
            /\ UNCHANGED <<started, results, exit_code, product_docs>>
  /\ UNCHANGED <<args, seed_inventory_vars, run_vars>>

\* if seed_all or args.inventory: seed_inventory() is called. It returns False
\* at once (no driver, no connection), ends the process (no data file), or
\* goes on to build the product map.
MainInventory ==
  /\ main_pc = "inventory"
  /\ IF seed_all \/ args.inventory
       THEN \E outcome \in { "False", "exit", "proceed" } :
              /\ started' = Append(started, "Inventory")
              /\ CASE outcome = "exit" ->
                        /\ main_pc' = "exited"
                        /\ exit_code' = "1"
                        /\ UNCHANGED <<results, pc>>
                   [] outcome = "False" ->
                        /\ main_pc' = "summary"
                        /\ results' = Append(results, <<"Inventory", "False">>)
                        /\ UNCHANGED <<exit_code, pc>>
                   [] OTHER ->
                        /\ main_pc' = "inventory_running"
                        /\ pc' = "map"
                        /\ UNCHANGED <<results, exit_code>>
       ELSE /\ main_pc' = "summary"
            /\ UNCHANGED <<started, results, exit_code, pc>>
  /\ UNCHANGED <<args, product_docs, run_vars>>
  /\ UNCHANGED <<inventory_data, products_data, product_map, inventory_items,
                 committed_items, item_idx, ci, si, variant_index, emitted,
                 seeded, variant_count, result, reservations, stock_movements, log,
                 history>>

\* seed_inventory has returned: results.append(('Inventory', ...))
MainInventoryReturn ==
  /\ main_pc = "inventory_running"
  /\ pc \in {"done", "failed"}
  /\ results' = Append(results, <<"Inventory", result>>)
  /\ main_pc' = "summary"
  /\ UNCHANGED <<args, started, exit_code, product_docs, seed_inventory_vars, run_vars>>

\* sys.exit(0 if all_success else 1)
MainSummary ==
  /\ main_pc = "summary"
  /\ exit_code' = IF all_success THEN "0" ELSE "1"
  /\ main_pc' = "exited"
  /\ UNCHANGED <<args, started, results, product_docs, seed_inventory_vars, run_vars>>

NextMain ==
  \/ MainUsers
  \/ MainProductsStep
  \/ MainInventory
  \/ MainInventoryReturn
  \/ MainSummary
  \/ BuildProductMap
  \/ ClearDemoInventory
  \/ NextItem
  \/ InsertColorSizeVariant
  \/ InsertSizeVariant
  \/ InsertColorVariant
  \/ InsertBaseItem
  \/ Commit

SpecMain == InitMain /\ [][NextMain]_vars

----------------------------------------------------------------------------
(* Vocabulary of the properties *)

\* The iteration of the current item has been entered
ItemStarted == item_idx >= 1

\* The loops of the current item ran to their end
ItemComplete == item_idx >= 1 /\ pc \in {"loop", "done"}

NumColors == IF product = None THEN 0 ELSE Len(product.colors)

NumSizes == IF product = None THEN 0 ELSE Len(product.sizes)

HasVariation == NumColors > 0 \/ NumSizes > 0

\* n of the distribution: |colors|*|sizes|, |sizes| or |colors|
NumVariants ==
  IF NumColors > 0 /\ NumSizes > 0 THEN NumColors * NumSizes
  ELSE IF NumSizes > 0 THEN NumSizes
  ELSE NumColors

RECURSIVE SumQuantity(_)
SumQuantity(rows) ==
  IF rows = <<>> THEN 0
  ELSE Head(rows).quantity_available + SumQuantity(Tail(rows))

BaseShare == Max(1, item.quantity_available \div NumVariants)

Remainder == item.quantity_available % NumVariants

UpperHyphen(s) == [i \in 1..Len(s) |-> IF s[i] = " " THEN "-" ELSE Upper(s[i])]

UpperOnly(s) == [i \in 1..Len(s) |-> Upper(s[i])]

----------------------------------------------------------------------------
(* Properties *)

\* C1: when quantity_available >= total_variants, the quantities of the
\* variant rows of an item sum exactly to the item's quantity_available.
C1_QuantityConserved ==
  (ItemComplete /\ HasVariation /\ item.quantity_available >= NumVariants)
    => SumQuantity(emitted) = item.quantity_available

C1_Witness ==
  /\ ItemComplete
  /\ NumColors = 2 /\ NumSizes = 2
  /\ item.quantity_available = 6
  /\ Len(emitted) = 4
  /\ emitted[1].quantity_available = 2 /\ emitted[4].quantity_available = 1

\* C2 as stated: when quantity_available < total_variants, every variant row
\* has quantity_available = 1 and the emitted total exceeds the input.
C2_Original ==
  (ItemStarted /\ HasVariation /\ item.quantity_available < NumVariants)
    => /\ \A k \in DOMAIN emitted : emitted[k].quantity_available = 1
       /\ ItemComplete => SumQuantity(emitted) > item.quantity_available

\* C2 amended: when quantity_available < total_variants, the first
\* (quantity_available mod total_variants) variant rows have quantity 2, the
\* others quantity 1, and the emitted total exceeds the input.
C2_FloorToOne ==
  (ItemStarted /\ HasVariation /\ item.quantity_available < NumVariants)
    => /\ \A k \in DOMAIN emitted :
            emitted[k].quantity_available = (IF k - 1 < Remainder THEN 2 ELSE 1)
       /\ ItemComplete => SumQuantity(emitted) > item.quantity_available

C2_Witness ==
  /\ ItemComplete
  /\ NumColors = 2 /\ NumSizes = 2
  /\ item.quantity_available = 2
  /\ Len(emitted) = 4
  /\ emitted[2].quantity_available = 2 /\ emitted[3].quantity_available = 1
  /\ SumQuantity(emitted) = 6

\* C3 as stated: the SKUs of the rows emitted for one base SKU are pairwise
\* distinct, for any lists of non-empty colour and size strings.
C3_Original ==
  \A j, k \in DOMAIN emitted : j # k => emitted[j].sku # emitted[k].sku

\* C4: an item emits |colors|*|sizes| rows when both lists are non-empty,
\* |sizes| when only sizes is, |colors| when only colors is, 1 when neither is.
C4_RowCount ==
  ItemComplete =>
    Len(emitted) = (IF NumColors > 0 /\ NumSizes > 0 THEN NumColors * NumSizes
                    ELSE IF NumSizes > 0 THEN NumSizes
                    ELSE IF NumColors > 0 THEN NumColors
                    ELSE 1)

C4_Witness ==
  /\ ItemComplete
  /\ NumColors = 2 /\ NumSizes = 2
  /\ Len(emitted) = 4
  /\ pc = "done"

\* C5: in cases 1-3 the variant at 0-based index i has quantity base_share + 1
\* when i < remainder and base_share otherwise, with base_share =
\* max(1, floor(quantity_available / n)) and remainder = quantity_available mod n.
C5_Distribution ==
  (ItemStarted /\ HasVariation) =>
    \A k \in DOMAIN emitted :
      emitted[k].quantity_available =
        (IF k - 1 < Remainder THEN BaseShare + 1 ELSE BaseShare)

C5_Witness ==
  /\ ItemComplete
  /\ NumColors = 0 /\ NumSizes = 2
  /\ item.quantity_available = 5
  /\ emitted[1].quantity_available = 3 /\ emitted[2].quantity_available = 2

C7_SingleAxis ==
  /\ (ItemStarted /\ NumColors = 0 /\ NumSizes > 0) =>
       /\ \A k \in DOMAIN emitted :
            emitted[k].sku = item.sku \o <<"-">> \o UpperHyphen(product.sizes[k])
       /\ ItemComplete => Len(emitted) = NumSizes
  /\ (ItemStarted /\ NumColors > 0 /\ NumSizes = 0) =>
       /\ \A k \in DOMAIN emitted :
            emitted[k].sku = item.sku \o <<"-">> \o UpperHyphen(product.colors[k])
       /\ ItemComplete => Len(emitted) = NumColors

C7_Witness ==
  /\ ItemComplete
  /\ NumColors = 0
  /\ product # None
  /\ product.sizes = << <<"a", " ", "b">>, <<"a">> >>
  /\ emitted[1].sku = <<"X", "-", "A", "-", "B">>
  /\ emitted[2].sku = <<"X", "-", "A">>

\* C8: an item with neither colours nor sizes, or with no product record,
\* emits exactly one row, with the base SKU unchanged and quantity_available,
\* quantity_reserved, reorder_level, max_stock and cost_per_unit copied.
C8_BaseOnly ==
  (ItemStarted /\ ~ HasVariation /\ pc # "item") =>
    /\ Len(emitted) = 1
    /\ emitted[1] = item

C8_Witness ==
  /\ ItemComplete
  /\ item_idx = 1
  /\ product = None
  /\ Len(products_data) = 1
  /\ item.quantity_available = 0
  /\ item.quantity_reserved = 2
  /\ emitted = << item >>

\* C9: in cases 1-3 every variant row has reorder_level =
\* max(1, floor(reorder_level / n)) and max_stock = max(10, floor(max_stock / n)).
C9_Thresholds ==
  (ItemStarted /\ HasVariation) =>
    \A k \in DOMAIN emitted :
      /\ emitted[k].reorder_level = Max(1, item.reorder_level \div NumVariants)
      /\ emitted[k].max_stock = Max(10, item.max_stock \div NumVariants)

C9_Witness ==
  /\ ItemComplete
  /\ NumVariants = 4
  /\ item.reorder_level = 3 /\ item.max_stock = 25
  /\ Len(emitted) = 4
  /\ \A k \in 1..4 : emitted[k].reorder_level = 1 /\ emitted[k].max_stock = 10

\* C10: in cases 1-3 every variant row has quantity_reserved = 0 whatever the
\* item's quantity_reserved, and the item's cost_per_unit unchanged.
C10_ReservedAndCost ==
  (ItemStarted /\ HasVariation) =>
    \A k \in DOMAIN emitted :
      /\ emitted[k].quantity_reserved = 0
      /\ emitted[k].cost_per_unit = item.cost_per_unit

C10_Witness ==
  /\ ItemComplete
  /\ HasVariation
  /\ item.quantity_reserved = 2
  /\ item.cost_per_unit = 1999
  /\ Len(emitted) = 2
  /\ emitted[2].quantity_reserved = 0 /\ emitted[2].cost_per_unit = 1999

\* C11 as stated: an item with an empty base SKU is rejected and no row is
\* emitted for it.
C11_Original ==
  (ItemStarted /\ item.sku = <<>>) => (emitted = <<>> /\ pc \notin {"loop", "done"})

NegativeTotals ==
  item.quantity_available < 0 \/ item.reorder_level < 0 \/ item.max_stock < 0

\* C12 as stated: an item with a negative quantity_available, reorder_level or
\* max_stock is rejected with no row emitted, and no emitted row has a negative
\* quantity_available.
C12_Original ==
  /\ (ItemStarted /\ NegativeTotals) => (emitted = <<>> /\ pc \notin {"loop", "done"})
  /\ \A k \in DOMAIN emitted : emitted[k].quantity_available >= 0

IsDemoSku(sku) ==
  \E i \in DOMAIN inventory_data :
    sku = inventory_data[i].sku \/ IsPrefix(inventory_data[i].sku \o <<"-">>, sku)

RunEnded == pc \in {"done", "failed"}

\* C13: before the first INSERT no row is left whose sku is a base SKU of the
\* data or starts with a base SKU and "-", and a second run on the same data
\* leaves the same rows in inventory_items as the first.
C13_Idempotent ==
  /\ (pc = "loop" /\ item_idx = 0) => \A r \in inventory_items : ~ IsDemoSku(r.sku)
  /\ (run = 2 /\ RunEnded) => committed_items = first_items

C13_Witness ==
  /\ run = 2
  /\ pc = "done"
  /\ Len(inventory_data) = 2
  /\ committed_items = first_items
  /\ \E r \in committed_items : r.sku = <<"X", "-", "A", "-", "B">>
  /\ \E r \in committed_items : r.sku = <<"_">>

C16_Shape ==
  (ItemStarted /\ HasVariation /\ item.quantity_available >= 0) =>
    /\ \A k \in DOMAIN emitted : emitted[k].quantity_available >= 1
    /\ \A j, k \in DOMAIN emitted :
         /\ j < k => emitted[j].quantity_available >= emitted[k].quantity_available
         /\ emitted[j].quantity_available - emitted[k].quantity_available \in {-1, 0, 1}
    /\ ItemComplete =>
         SumQuantity(emitted) =
           (IF item.quantity_available >= NumVariants THEN item.quantity_available
            ELSE NumVariants + item.quantity_available)

C16_Witness ==
  /\ ItemComplete
  /\ NumVariants = 4
  /\ item.quantity_available = 3
  /\ Len(emitted) = 4
  /\ emitted[3].quantity_available = 2 /\ emitted[4].quantity_available = 1
  /\ SumQuantity(emitted) = 7

\* C18 as stated: when an INSERT fails the function returns False and the
\* committed content of inventory_items is what it was before the call.
C18_Original ==
  (run = 1 /\ pc = "failed") => (result = "False" /\ committed_items = InitialItems)

Untouched(before, after) == \A r \in before : ~ IsDemoSku(r.sku) => r \in after

Position(statement) ==
  IF \E k \in DOMAIN log : log[k] = statement
    THEN CHOOSE k \in DOMAIN log : log[k] = statement /\ \A j \in 1..(k - 1) : log[j] # statement
    ELSE 0

\* C19 as stated: clearing leaves every row of the three tables whose sku is
\* neither a base SKU of the data nor a base SKU followed by "-..." unchanged;
\* for each base SKU the deletes from stock_movements and reservations come
\* before the delete from inventory_items; the deletes are committed before
\* the first INSERT.
C19_Original ==
  (run = 1 /\ pc \notin {"map", "clear"}) =>
    /\ Untouched(InitialItems, inventory_items)
    /\ Untouched(InitialReservations, reservations)
    /\ Untouched(InitialMovements, stock_movements)
    /\ \A i \in DOMAIN inventory_data :
         LET b == inventory_data[i].sku
         IN /\ Position(Statement("delete", "inventory_items", b)) > 0
            /\ Position(Statement("delete", "stock_movements", b))
                 < Position(Statement("delete", "inventory_items", b))
            /\ Position(Statement("delete", "reservations", b))
                 < Position(Statement("delete", "inventory_items", b))
            /\ Position(Statement("delete", "stock_movements", b)) > 0
            /\ Position(Statement("delete", "reservations", b)) > 0
    /\ \A k \in DOMAIN log :
         log[k].op = "insert" =>
           /\ Position(CommitStatement) \in 1..(k - 1)
           /\ \A j \in DOMAIN log : log[j].op = "delete" => j < Position(CommitStatement)

\* The steps the flags select, in the order main calls them
SelectedSteps ==
  (IF seed_all \/ args.users THEN <<"Users">> ELSE <<>>)
    \o (IF seed_all \/ args.products THEN <<"Products">> ELSE <<>>)
    \o (IF seed_all \/ args.inventory THEN <<"Inventory">> ELSE <<>>)

EveryResultSuccess == \A k \in DOMAIN results : results[k][2] = "True"

\* C15 as stated: every selected step runs, in the order users, products,
\* inventory, whatever the earlier steps did, and the exit status is 0 exactly
\* when every step that ran returned success.
C15_Original ==
  main_pc = "exited" =>
    /\ started = SelectedSteps
    /\ exit_code = "0" <=> EveryResultSuccess

\* C15 amended: the selected steps run in the order users, products,
\* inventory; a step that returns False does not stop the later ones; a step
\* that ends the process (missing data file, uncaught exception) ends the run
\* at once with status 1 and no later step runs; when every selected step
\* returned, the exit status is 0 exactly when every one returned success.
C15_StepsAndExit ==
  /\ main_pc # "off" =>
       /\ Len(started) <= Len(SelectedSteps)
       /\ started = SubSeq(SelectedSteps, 1, Len(started))
       /\ \A k \in DOMAIN results : results[k][1] = started[k]
  /\ main_pc = "exited" =>
       IF Len(results) = Len(started)
         THEN /\ started = SelectedSteps
              /\ exit_code = "0" <=> EveryResultSuccess
         ELSE /\ Len(results) = Len(started) - 1
              /\ exit_code = "1"

C15_Witness ==
  /\ main_pc = "exited"
  /\ seed_all
  /\ started = <<"Users", "Products", "Inventory">>
  /\ results = << <<"Users", "False">>, <<"Products", "True">>, <<"Inventory", "True">> >>
  /\ exit_code = "1"
  /\ pc = "done"

ItemsOf(sku) == { i \in DOMAIN inventory_data : inventory_data[i].sku = sku }

\* C17 as stated: the variant SKUs seed_products stores in a product document
\* are the SKUs seed_inventory inserts for the same base SKU.
C17_Original ==
  (main_pc = "exited" /\ results = << <<"Products", "True">>, <<"Inventory", "True">> >>) =>
    \A d \in product_docs : \A i \in ItemsOf(d.sku) :
      { d.variants[k].sku : k \in DOMAIN d.variants }
        = { history[i][k].sku : k \in DOMAIN history[i] }

====
